---- MODULE Spec2Model ----
(***************************************************************************)
(* Multi-asset backtesting core of portfolio_backtest:                     *)
(*   risk_management/risk_assessor.py   RiskAssessor                       *)
(*   risk_management/position.py        Position                           *)
(*   portfolio/portfolio_manager.py     PortfolioManager                   *)
(*   backtesting/backtester.py          Backtester                         *)
(*                                                                         *)
(* Python floats are modelled as exact rationals [n, d] with d > 0 in      *)
(* lowest terms.  A record with d = 0 is not a number: n = 0 is the IEEE   *)
(* NaN (every ordered comparison and == with it is false, arithmetic       *)
(* propagates it, it is truthy), n = 1 is Python's None, n = 2 stands for  *)
(* a ZeroDivisionError raised while computing the value.                   *)
(***************************************************************************)
EXTENDS Integers, Sequences, FiniteSets, TLC

\* ------------------------------------------------------------------------
\* Bounds of the model
\* ------------------------------------------------------------------------
\* number of update_for_symbol calls explored from a fresh PortfolioManager
MaxCalls == 3
\* timestamps a historical DataFrame may carry: 1..MaxT
MaxT == 3
\* min_data_points of Backtester.run ranges over 0..MaxWarm
MaxWarm == 2

\* ------------------------------------------------------------------------
\* Float arithmetic
\* ------------------------------------------------------------------------
RECURSIVE GCD(_, _)
GCD(a, b) == IF b = 0 THEN a ELSE GCD(b, a % b)

Abs(x) == IF x < 0 THEN -x ELSE x

R(n, d) ==
    LET g == GCD(Abs(n), Abs(d))
        s == IF d < 0 THEN -1 ELSE 1
    IN [n |-> s * (n \div g), d |-> s * (d \div g)]

NaN == [n |-> 0, d |-> 0]
None == [n |-> 1, d |-> 0]
\* result of an expression whose evaluation raised ZeroDivisionError
ZeroDivisionError == [n |-> 2, d |-> 0]
Zero == [n |-> 0, d |-> 1]

IsNum(x) == x.d > 0
IsNaN(x) == x = NaN

FAdd(a, b) == IF IsNum(a) /\ IsNum(b) THEN R(a.n * b.d + b.n * a.d, a.d * b.d) ELSE NaN
FSub(a, b) == IF IsNum(a) /\ IsNum(b) THEN R(a.n * b.d - b.n * a.d, a.d * b.d) ELSE NaN
FMul(a, b) == IF IsNum(a) /\ IsNum(b) THEN R(a.n * b.n, a.d * b.d) ELSE NaN
FDiv(a, b) ==
    IF IsNum(b) /\ b.n = 0 THEN ZeroDivisionError
    ELSE IF IsNum(a) /\ IsNum(b) THEN R(a.n * b.d, a.d * b.n) ELSE NaN
FAbs(a) == IF IsNum(a) THEN [n |-> Abs(a.n), d |-> a.d] ELSE NaN

FLe(a, b) == IsNum(a) /\ IsNum(b) /\ a.n * b.d <= b.n * a.d
FLt(a, b) == IsNum(a) /\ IsNum(b) /\ a.n * b.d < b.n * a.d
FGe(a, b) == FLe(b, a)
FGt(a, b) == FLt(b, a)
FEq(a, b) == IsNum(a) /\ IsNum(b) /\ a = b

\* bool(x) of a float or None
Truthy(x) == IF IsNum(x) THEN x.n # 0 ELSE x = NaN

\* ------------------------------------------------------------------------
\* Parameters the runners construct the objects with
\* ------------------------------------------------------------------------
Symbols == {"BTCUSDT", "ETHUSDT"}

\* initial_capital handed to PortfolioManager.__init__
InitialCapitals == { R(1000, 1), Zero, R(-1000, 1) }

risk_per_trade_pct == R(1, 100)
atr_multiplier_sl == R(2, 1)

\* what strategy.check_signal may return ("OTHER": any value that is
\* neither 'BUY' nor 'SELL' nor 'HOLD')
Signals == {"BUY", "SELL", "HOLD", "OTHER"}
\* the call did not reach strategy.check_signal
NotAsked == "NOT_ASKED"
\* strategy.check_signal raised instead of returning (BasicStrategy reads the
\* column MACDh_12_26_9, which IndicatorManager never adds: KeyError)
Raises == "RAISES"

\* kinds of strategy object handed to the PortfolioManager
\*   "hook":        has get_take_profit_price (ElliottWaveStrategy)
\*   "middle_band": has a non-empty middle_band_col (ConfluenceStrategy)
\*   "plain":       has neither (BasicStrategy)
StrategyKinds == {"plain", "hook"}

\* ------------------------------------------------------------------------
\* RiskAssessor
\* ------------------------------------------------------------------------
\* determine_initial_sl with the signs of the two directions exchanged
determine_initial_sl_swapped(latest_candle, direction) ==
    LET atr_value == latest_candle.ATR_14
        entry_price == latest_candle.Close
    IN IF direction = "LONG" THEN FAdd(entry_price, FMul(atr_value, atr_multiplier_sl))
       ELSE IF direction = "SHORT" THEN FSub(entry_price, FMul(atr_value, atr_multiplier_sl))
       ELSE entry_price

determine_initial_sl(latest_candle, direction) ==
    LET atr_value == latest_candle.ATR_14
        entry_price == latest_candle.Close
    IN IF direction = "LONG" THEN FSub(entry_price, FMul(atr_value, atr_multiplier_sl))
       ELSE IF direction = "SHORT" THEN FAdd(entry_price, FMul(atr_value, atr_multiplier_sl))
       ELSE entry_price

\* calculate_position_size without abs() around the stop distance
calculate_position_size_signed(portfolio_balance, risk_pct, entry_price, stop_loss_price) ==
    LET risk_per_unit == FSub(entry_price, stop_loss_price)
    IN IF FLe(risk_per_unit, Zero) THEN Zero
       ELSE FDiv(FMul(portfolio_balance, risk_pct), risk_per_unit)

\* calculate_position_size without the guard on a zero stop distance
calculate_position_size_unguarded(portfolio_balance, risk_pct, entry_price, stop_loss_price) ==
    LET risk_per_unit == FAbs(FSub(entry_price, stop_loss_price))
    IN FDiv(FMul(portfolio_balance, risk_pct), risk_per_unit)

\* calculate_position_size staking the whole balance, not the risk fraction
calculate_position_size_all_in(portfolio_balance, risk_pct, entry_price, stop_loss_price) ==
    LET risk_per_unit == FAbs(FSub(entry_price, stop_loss_price))
    IN IF FLe(risk_per_unit, Zero) THEN Zero
       ELSE FDiv(portfolio_balance, risk_per_unit)

calculate_position_size(portfolio_balance, risk_pct, entry_price, stop_loss_price) ==
    LET risk_per_unit == FAbs(FSub(entry_price, stop_loss_price))
    IN IF FLe(risk_per_unit, Zero) THEN Zero
       ELSE FDiv(FMul(portfolio_balance, risk_pct), risk_per_unit)

\* ------------------------------------------------------------------------
\* PortfolioManager; self is [capital, open_positions, trade_history, raised],
\* raised: an exception left the call
\* ------------------------------------------------------------------------
Position(entry_time, entry_price, size, stop_loss, take_profit, direction) ==
    [entry_time |-> entry_time, entry_price |-> entry_price, size |-> size,
     stop_loss |-> stop_loss, take_profit |-> take_profit, direction |-> direction]

\* ElliottWaveStrategy.get_take_profit_price
get_take_profit_price(current_candle, direction) ==
    LET current_price == current_candle.Close
        recent_range == FSub(current_candle.High, current_candle.Low)
        projection == FMul(recent_range, R(3, 2))
    IN IF direction = "LONG" THEN FAdd(current_price, projection)
       ELSE IF direction = "SHORT" THEN FSub(current_price, projection)
       ELSE current_price

\* the except branch of _calculate_take_profit
take_profit_fallback(candle, direction) ==
    IF direction = "LONG" THEN FMul(candle.Close, R(101, 100))
    ELSE FMul(candle.Close, R(99, 100))

calculate_take_profit(strat, candle, direction) ==
    IF strat = "hook" THEN get_take_profit_price(candle, direction)
    ELSE IF strat = "middle_band"
         \* candle[middle_band_col]: IndicatorManager adds no Bollinger
         \* column, the KeyError lands in the except branch
         THEN take_profit_fallback(candle, direction)
    ELSE LET atr_value == candle.ATR_14
         IN IF FGt(atr_value, Zero)
            THEN IF direction = "LONG"
                 THEN FAdd(candle.Close, FMul(atr_value, R(2, 1)))
                 ELSE FSub(candle.Close, FMul(atr_value, R(2, 1)))
            ELSE IF FEq(atr_value, Zero)
            THEN IF direction = "LONG"
                 THEN FMul(candle.Close, FAdd(R(1, 1), R(2, 100)))
                 ELSE FMul(candle.Close, FSub(R(1, 1), R(2, 100)))
            \* atr_value negative or NaN: `multiplier` is unbound, the
            \* UnboundLocalError lands in the except branch
            ELSE take_profit_fallback(candle, direction)

Drop(f, k) == [x \in (DOMAIN f) \ {k} |-> f[x]]
Put(f, k, v) == [x \in (DOMAIN f) \cup {k} |-> IF x = k THEN v ELSE f[x]]

\* _close_position with trade_history.insert(0, trade_info) for append
close_position_prepend(self, symbol, exit_price, reason, exit_time) ==
    LET position == self.open_positions[symbol]
        pnl_multiplier == IF position.direction = "LONG" THEN R(1, 1) ELSE R(-1, 1)
        pnl == FMul(FMul(FSub(exit_price, position.entry_price), position.size), pnl_multiplier)
        trade_info == [entry_time |-> position.entry_time,
                       entry_price |-> position.entry_price,
                       size |-> position.size,
                       stop_loss |-> position.stop_loss,
                       take_profit |-> position.take_profit,
                       direction |-> position.direction,
                       pnl |-> pnl, exit_reason |-> reason,
                       exit_time |-> exit_time, symbol |-> symbol]
    IN [capital |-> FAdd(self.capital, pnl),
        open_positions |-> Drop(self.open_positions, symbol),
        trade_history |-> <<trade_info>> \o self.trade_history,
        raised |-> self.raised]

close_position(self, symbol, exit_price, reason, exit_time) ==
    LET position == self.open_positions[symbol]
        pnl_multiplier == IF position.direction = "LONG" THEN R(1, 1) ELSE R(-1, 1)
        pnl == FMul(FMul(FSub(exit_price, position.entry_price), position.size), pnl_multiplier)
        trade_info == [entry_time |-> position.entry_time,
                       entry_price |-> position.entry_price,
                       size |-> position.size,
                       stop_loss |-> position.stop_loss,
                       take_profit |-> position.take_profit,
                       direction |-> position.direction,
                       pnl |-> pnl, exit_reason |-> reason,
                       exit_time |-> exit_time, symbol |-> symbol]
    IN [capital |-> FAdd(self.capital, pnl),
        open_positions |-> Drop(self.open_positions, symbol),
        trade_history |-> Append(self.trade_history, trade_info),
        raised |-> self.raised]

\* _manage_open_position filling at the bar's extreme instead of the level
exit_decision_at_bar(position, latest_candle) ==
    LET high_price == latest_candle.High
        low_price == latest_candle.Low
    IN IF position.direction = "LONG"
       THEN IF FLe(low_price, position.stop_loss)
            THEN [exit_price |-> low_price, reason |-> "STOP_LOSS"]
            ELSE IF FGe(high_price, position.take_profit)
            THEN [exit_price |-> high_price, reason |-> "TAKE_PROFIT"]
            ELSE [exit_price |-> None, reason |-> "None"]
       ELSE IF position.direction = "SHORT"
       THEN IF FGe(high_price, position.stop_loss)
            THEN [exit_price |-> high_price, reason |-> "STOP_LOSS"]
            ELSE IF FLe(low_price, position.take_profit)
            THEN [exit_price |-> low_price, reason |-> "TAKE_PROFIT"]
            ELSE [exit_price |-> None, reason |-> "None"]
       ELSE [exit_price |-> None, reason |-> "None"]

\* the (exit_price, reason) pair chosen by _manage_open_position
exit_decision(position, latest_candle) ==
    LET high_price == latest_candle.High
        low_price == latest_candle.Low
    IN IF position.direction = "LONG"
       THEN IF FLe(low_price, position.stop_loss)
            THEN [exit_price |-> position.stop_loss, reason |-> "STOP_LOSS"]
            ELSE IF FGe(high_price, position.take_profit)
            THEN [exit_price |-> position.take_profit, reason |-> "TAKE_PROFIT"]
            ELSE [exit_price |-> None, reason |-> "None"]
       ELSE IF position.direction = "SHORT"
       THEN IF FGe(high_price, position.stop_loss)
            THEN [exit_price |-> position.stop_loss, reason |-> "STOP_LOSS"]
            ELSE IF FLe(low_price, position.take_profit)
            THEN [exit_price |-> position.take_profit, reason |-> "TAKE_PROFIT"]
            ELSE [exit_price |-> None, reason |-> "None"]
       ELSE [exit_price |-> None, reason |-> "None"]

\* _manage_open_position with a trailing stop: a position that stays open
\* after the bar went its way gets its stop moved to the entry price
manage_open_position_trailing(self, latest_candle, symbol) ==
    LET position == self.open_positions[symbol]
        e == exit_decision(position, latest_candle)
        went_its_way == IF position.direction = "LONG"
                        THEN FGt(latest_candle.High, position.entry_price)
                        ELSE FLt(latest_candle.Low, position.entry_price)
    IN IF Truthy(e.exit_price) /\ e.reason # "None"
       THEN close_position(self, symbol, e.exit_price, e.reason, latest_candle.name)
       ELSE IF went_its_way
       THEN [self EXCEPT !.open_positions[symbol].stop_loss = position.entry_price]
       ELSE self

manage_open_position(self, latest_candle, symbol) ==
    LET e == exit_decision(self.open_positions[symbol], latest_candle)
    IN IF Truthy(e.exit_price) /\ e.reason # "None"
       THEN close_position(self, symbol, e.exit_price, e.reason, latest_candle.name)
       ELSE self

\* _check_new_entry taking BUY for SHORT and SELL for LONG
check_new_entry_inverted(self, strat, candle, signal, symbol) ==
    IF signal = Raises THEN [self EXCEPT !.raised = TRUE]
    ELSE IF signal \notin {"BUY", "SELL"} THEN self
    ELSE LET direction == IF signal = "BUY" THEN "SHORT" ELSE "LONG"
             entry_price == candle.Close
             take_profit == calculate_take_profit(strat, candle, direction)
             stop_loss == determine_initial_sl(candle, direction)
             position_size == calculate_position_size(self.capital, risk_per_trade_pct,
                                                      entry_price, stop_loss)
         IN IF position_size = ZeroDivisionError THEN [self EXCEPT !.raised = TRUE]
            ELSE IF FLe(position_size, Zero) THEN self
            ELSE [self EXCEPT !.open_positions =
                     Put(@, symbol, Position(candle.name, entry_price, position_size,
                                             stop_loss, take_profit, direction))]

\* _check_new_entry paying for the position out of capital when it opens
check_new_entry_debit(self, strat, candle, signal, symbol) ==
    IF signal = Raises THEN [self EXCEPT !.raised = TRUE]
    ELSE IF signal \notin {"BUY", "SELL"} THEN self
    ELSE LET direction == IF signal = "BUY" THEN "LONG" ELSE "SHORT"
             entry_price == candle.Close
             take_profit == calculate_take_profit(strat, candle, direction)
             stop_loss == determine_initial_sl(candle, direction)
             position_size == calculate_position_size(self.capital, risk_per_trade_pct,
                                                      entry_price, stop_loss)
         IN IF position_size = ZeroDivisionError THEN [self EXCEPT !.raised = TRUE]
            ELSE IF FLe(position_size, Zero) THEN self
            ELSE [self EXCEPT !.capital = FSub(@, FMul(entry_price, position_size)),
                              !.open_positions =
                     Put(@, symbol, Position(candle.name, entry_price, position_size,
                                             stop_loss, take_profit, direction))]

\* signal is what strategy.check_signal(df) returned for this slice
check_new_entry(self, strat, candle, signal, symbol) ==
    IF signal = Raises THEN [self EXCEPT !.raised = TRUE]
    ELSE IF signal \notin {"BUY", "SELL"} THEN self
    ELSE LET direction == IF signal = "BUY" THEN "LONG" ELSE "SHORT"
             entry_price == candle.Close
             take_profit == calculate_take_profit(strat, candle, direction)
             stop_loss == determine_initial_sl(candle, direction)
             position_size == calculate_position_size(self.capital, risk_per_trade_pct,
                                                      entry_price, stop_loss)
         IN IF position_size = ZeroDivisionError THEN [self EXCEPT !.raised = TRUE]
            ELSE IF FLe(position_size, Zero) THEN self
            ELSE [self EXCEPT !.open_positions =
                     Put(@, symbol, Position(candle.name, entry_price, position_size,
                                             stop_loss, take_profit, direction))]

\* seeks_entry without the ceiling on open positions
seeks_entry_no_limit(self, max_open, symbol) ==
    symbol \notin DOMAIN self.open_positions

\* `if` for `elif`: a symbol in position is offered to _check_new_entry too
seeks_entry_reentry(self, max_open, symbol) ==
    Cardinality(DOMAIN self.open_positions) < max_open

\* the conditions (lines 36 and 41) under which the call reaches
\* _check_new_entry, and with it strategy.check_signal
seeks_entry(self, max_open, symbol) ==
    /\ symbol \notin DOMAIN self.open_positions
    /\ Cardinality(DOMAIN self.open_positions) < max_open

\* update_for_symbol looking for the entry first and managing whatever
\* position the symbol then has, the one just opened included
update_for_symbol_same_bar(self, strat, max_open, candle, signal, symbol) ==
    LET entered == IF seeks_entry(self, max_open, symbol)
                   THEN check_new_entry(self, strat, candle, signal, symbol)
                   ELSE self
    IN IF symbol \in DOMAIN entered.open_positions /\ ~entered.raised
       THEN manage_open_position(entered, candle, symbol)
       ELSE entered

\* candle is the last row of indicator_manager.calculate_indicators(df_slice)
update_for_symbol(self, strat, max_open, candle, signal, symbol) ==
    LET managed == IF symbol \in DOMAIN self.open_positions
                   THEN manage_open_position(self, candle, symbol)
                   ELSE self
    IN IF seeks_entry(self, max_open, symbol)
       THEN check_new_entry(managed, strat, candle, signal, symbol)
       ELSE managed

\* ------------------------------------------------------------------------
\* Inputs: the enriched bars a call may see
\* ------------------------------------------------------------------------
\* <<Close, High, Low, ATR_14>> of the last enriched row of a slice: a quiet
\* bar with zero, normal and NaN ATR; bars that reach above, below and both
\* sides of the levels set by a normal entry; a bar as wide as the price whose
\* Low is 0
BarKinds ==
    { <<100, 100, 100, Zero>>, <<100, 100, 100, R(5, 1)>>, <<100, 100, 100, NaN>>,
      <<100, 125, 85, R(5, 1)>>, <<100, 125, 100, R(5, 1)>>, <<100, 100, 85, R(5, 1)>>,
      <<100, 250, 0, R(50, 1)>> }

Candle(t, k) ==
    [name |-> t, Close |-> R(k[1], 1), High |-> R(k[2], 1),
     Low |-> R(k[3], 1), ATR_14 |-> k[4]]

\* ------------------------------------------------------------------------
\* Inputs: historical DataFrames
\* ------------------------------------------------------------------------
\* A row of a DataFrame is its index label (name), the bar, and what the
\* collaborators compute for the slice that ends with this row: ATR_14 (part
\* of the bar kind) by IndicatorManager.calculate_indicators and signal by
\* strategy.check_signal, both pure functions of the slice.
RowKinds ==
    << [kind |-> <<100, 100, 100, R(5, 1)>>, signal |-> "BUY"],
       [kind |-> <<100, 125, 100, R(5, 1)>>, signal |-> "SELL"] >>

RECURSIVE RowsFrom(_, _)
RowsFrom(f, t) ==
    IF t > MaxT THEN <<>>
    ELSE (IF f[t] = 0 THEN <<>>
          ELSE << [name |-> t, kind |-> RowKinds[f[t]].kind,
                   signal |-> RowKinds[f[t]].signal] >>)
         \o RowsFrom(f, t + 1)

\* every DataFrame with a strictly increasing index within 1..MaxT
DataFrames == { RowsFrom(f, 1) : f \in [1..MaxT -> 0..Len(RowKinds)] }

\* historical_data: a dict in insertion order, symbol -> DataFrame
HistoricalData ==
    { << [symbol |-> "ETHUSDT", df |-> d1], [symbol |-> "BTCUSDT", df |-> d2] >> :
         d1 \in DataFrames, d2 \in DataFrames }

\* ------------------------------------------------------------------------
\* pandas
\* ------------------------------------------------------------------------
Range(q) == { q[j] : j \in DOMAIN q }

RECURSIVE SortedSeq(_)
SortedSeq(S) ==
    IF S = {} THEN <<>>
    ELSE LET m == CHOOSE x \in S : \A y \in S : x <= y
         IN <<m>> \o SortedSeq(S \ {m})

\* df.index
index(df) == [j \in DOMAIN df |-> df[j].name]

\* Index.append in place of Index.union
index_union_append(a, b) == a \o b

\* Index.union(other): the sorted, unique union of two indexes
index_union(a, b) == SortedSeq(Range(a) \cup Range(b))

\* iteration over an unordered mapping: any order
items_any_order(h) ==
    { [j \in DOMAIN h |-> h[f[j]]] :
        f \in { g \in [DOMAIN h -> DOMAIN h] : \A a, b \in DOMAIN h : a # b => g[a] # g[b] } }

\* dict.values() / dict.items(): the orders the iteration may take
values(h) == { h }
items(h) == { h }

\* the whole frame in place of the slice
loc_upto_whole(df, label) == df

\* df.loc[:label] on a monotonic index: rows up to and including label
loc_upto(df, label) == SelectSeq(df, LAMBDA r : r.name <= label)

RECURSIVE union_all(_, _)
union_all(master, dfs) ==
    IF dfs = <<>> THEN master
    ELSE union_all(index_union(master, index(Head(dfs).df)), Tail(dfs))

\* ------------------------------------------------------------------------
\* State
\* ------------------------------------------------------------------------
VARIABLES
    capital,             \* PortfolioManager.capital
    open_positions,      \* PortfolioManager.open_positions: symbol -> Position
    trade_history,       \* PortfolioManager.trade_history
    max_open_positions,  \* PortfolioManager.max_open_positions
    strategy,            \* kind of PortfolioManager.strategy
    initial_capital,     \* the initial_capital argument of __init__
    raised,              \* an exception left the latest update_for_symbol call
    ncalls,              \* number of update_for_symbol calls made so far
    last,                \* arguments of the latest update_for_symbol call
    historical_data,     \* Backtester.run argument
    min_data_points,     \* Backtester.run argument
    master_index,        \* Backtester.run local
    i,                   \* Backtester.run outer loop variable (0-based)
    pending,             \* items the inner loop has still to visit at step i
    pc,                  \* position of Backtester.run
    calls,               \* update_for_symbol calls made by this run, in order
    run,                 \* 1: first run, 2: re-run on a fresh PortfolioManager
    first,               \* ledger, capital and calls of the first run
    risk_call,           \* the latest direct call of a method outside a run
    last_processed_length, \* TaewAnalyzer.last_processed_length
    cached_waves,        \* TaewAnalyzer.cached_waves
    client_df,           \* BinanceWebsocketClient.df, as its Close_time column
    callback_calls,      \* arguments of the callback invocations, in order
    nmessages            \* number of websocket messages handled so far

pmvars == <<capital, open_positions, trade_history, raised>>
cfgvars == <<max_open_positions, strategy, initial_capital>>
btvars == <<historical_data, min_data_points, master_index, i, pending, pc,
            calls, run, first>>
taewvars == <<last_processed_length, cached_waves>>
wsvars == <<client_df, callback_calls, nmessages>>
vars == <<pmvars, cfgvars, ncalls, last, btvars, risk_call, taewvars, wsvars>>

Self == [capital |-> capital, open_positions |-> open_positions,
         trade_history |-> trade_history, raised |-> FALSE]

NoPositions == [x \in {} |-> 0]

\* PortfolioManager.__init__
PMInit ==
    /\ initial_capital \in InitialCapitals
    /\ capital = initial_capital
    /\ open_positions = NoPositions
    /\ trade_history = <<>>
    /\ max_open_positions \in {1, 2}
    /\ strategy \in StrategyKinds
    /\ raised = FALSE

NoCall == [symbol |-> "", signal |-> "", candle |-> Candle(0, <<0, 0, 0, Zero>>)]

NoRun == [trade_history |-> <<>>, capital |-> Zero, calls |-> <<>>]

NoRiskCall == [method |-> "", candle |-> Candle(0, <<0, 0, 0, Zero>>),
               direction |-> "", result |-> None]

\* no Backtester is running
BTIdle ==
    /\ historical_data = <<>>
    /\ min_data_points = 0
    /\ master_index = <<>>
    /\ i = 0
    /\ pending = <<>>
    /\ pc = "idle"
    /\ calls = <<>>
    /\ run = 0
    /\ first = NoRun

Init ==
    /\ PMInit
    /\ ncalls = 0
    /\ last = NoCall
    /\ risk_call = NoRiskCall
    /\ last_processed_length = 0
    /\ cached_waves = <<>>
    /\ client_df = <<>>
    /\ callback_calls = <<>>
    /\ nmessages = 0
    /\ BTIdle

\* what strategy.check_signal may answer in a call for symbol from the current
\* state: nothing when the call does not reach it
Answers(symbol, answers) ==
    IF seeks_entry(Self, max_open_positions, symbol) THEN answers ELSE {NotAsked}

\* the result of self.update_for_symbol(df_slice, symbol) from the current
\* state, candle being the last enriched row of df_slice and signal what
\* strategy.check_signal returns for it
Call(candle, signal, symbol) ==
    update_for_symbol(Self, strategy, max_open_positions, candle, signal, symbol)

\* one call PortfolioManager.update_for_symbol(df_slice, symbol), by any
\* caller, on a bar later than every bar seen before
UpdateForSymbol ==
    /\ ncalls < MaxCalls
    /\ \E symbol \in Symbols, k \in BarKinds :
       \E signal \in Answers(symbol, Signals) :
          LET candle == Candle(ncalls + 1, k)
              new == Call(candle, signal, symbol)
          IN /\ last' = [symbol |-> symbol, signal |-> signal, candle |-> candle]
             /\ capital' = new.capital
             /\ open_positions' = new.open_positions
             /\ trade_history' = new.trade_history
             /\ raised' = new.raised
    /\ ncalls' = ncalls + 1
    /\ UNCHANGED <<cfgvars, risk_call, taewvars, wsvars, btvars>>

Next == UpdateForSymbol

Spec == Init /\ [][Next]_vars

\* ------------------------------------------------------------------------
\* RiskAssessor called directly
\* ------------------------------------------------------------------------
\* Close and ATR_14 of the candle, and the direction, a caller may pass
ClosePrices == { Zero, R(1, 1), R(50, 1), R(100, 1), R(200, 1) }
AtrValues == { Zero, R(1, 1), R(5, 2), R(5, 1), R(50, 1), R(-1, 1), NaN }
Directions == { "LONG", "SHORT", "long", "FLAT" }

RAInit ==
    /\ Init
    /\ initial_capital = R(1000, 1)
    /\ max_open_positions = 1
    /\ strategy = "plain"

\* one call risk_assessor.determine_initial_sl(latest_candle, direction)
DetermineInitialSl ==
    /\ \E close \in ClosePrices, atr \in AtrValues, direction \in Directions :
          LET latest_candle == [name |-> 1, Close |-> close, High |-> close,
                                Low |-> close, ATR_14 |-> atr]
          IN risk_call' = [method |-> "determine_initial_sl",
                           candle |-> latest_candle, direction |-> direction,
                           result |-> determine_initial_sl(latest_candle, direction)]
    /\ UNCHANGED <<pmvars, cfgvars, ncalls, last, btvars, taewvars, wsvars>>

\* the arguments a caller may pass to calculate_position_size
Balances == { R(10000, 1), R(1000, 1), Zero, R(-1000, 1) }
RiskFractions == { R(1, 100), R(1, 50) }
EntryPrices == { R(100, 1), R(50, 1), Zero }
StopPrices == { R(98, 1), R(100, 1), R(90, 1), R(110, 1), Zero, NaN }

\* one call risk_assessor.calculate_position_size(portfolio_balance,
\* risk_per_trade_pct, entry_price, stop_loss_price)
CalculatePositionSize ==
    /\ \E portfolio_balance \in Balances, risk_pct \in RiskFractions,
          entry_price \in EntryPrices, stop_loss_price \in StopPrices :
          risk_call' = [method |-> "calculate_position_size",
                        portfolio_balance |-> portfolio_balance,
                        risk_per_trade_pct |-> risk_pct,
                        entry_price |-> entry_price,
                        stop_loss_price |-> stop_loss_price,
                        result |-> calculate_position_size(portfolio_balance, risk_pct,
                                                           entry_price, stop_loss_price)]
    /\ UNCHANGED <<pmvars, cfgvars, ncalls, last, btvars, taewvars, wsvars>>

NextRA ==
    \/ DetermineInitialSl
    \/ CalculatePositionSize

SpecRA == RAInit /\ [][NextRA]_vars

\* ------------------------------------------------------------------------
\* PortfolioManager._calculate_take_profit called directly
\* ------------------------------------------------------------------------
\* High - Low of the candle
BarRanges == { Zero, R(10, 1) }

\* one call self._calculate_take_profit(candle, direction) of a
\* PortfolioManager built with a strategy of kind strat
CalculateTakeProfit ==
    /\ \E strat \in StrategyKinds \cup {"middle_band"}, close \in ClosePrices,
          atr \in AtrValues, range \in BarRanges, direction \in {"LONG", "SHORT"} :
          LET candle == [name |-> 1, Close |-> close, High |-> FAdd(close, range),
                         Low |-> close, ATR_14 |-> atr]
          IN risk_call' = [method |-> "_calculate_take_profit", strategy |-> strat,
                           candle |-> candle, direction |-> direction,
                           result |-> calculate_take_profit(strat, candle, direction)]
    /\ UNCHANGED <<pmvars, cfgvars, ncalls, last, btvars, taewvars, wsvars>>

NextTP == CalculateTakeProfit

SpecTP == RAInit /\ [][NextTP]_vars

\* ------------------------------------------------------------------------
\* Backtester.run
\* ------------------------------------------------------------------------
BTInit ==
    /\ initial_capital = R(1000, 1)
    /\ capital = initial_capital
    /\ open_positions = NoPositions
    /\ trade_history = <<>>
    /\ max_open_positions \in {1, 2}
    /\ strategy = "plain"
    /\ raised = FALSE
    /\ ncalls = 0
    /\ last = NoCall
    /\ historical_data \in HistoricalData
    /\ min_data_points \in 0..MaxWarm
    /\ master_index = <<>>
    /\ i = 0
    /\ pending = <<>>
    /\ pc = "start"
    /\ calls = <<>>
    /\ run = 1
    /\ first = NoRun
    /\ risk_call = NoRiskCall
    /\ last_processed_length = 0
    /\ cached_waves = <<>>
    /\ client_df = <<>>
    /\ callback_calls = <<>>
    /\ nmessages = 0

\* Backtester.run whose outer loop starts at 0
BuildTimeline_no_warmup ==
    /\ pc = "start"
    /\ \E vs \in values(historical_data) :
          master_index' = union_all(<<>>, vs)
    /\ i' = 0
    /\ pc' = "outer"
    /\ UNCHANGED <<pmvars, cfgvars, risk_call, taewvars, wsvars, ncalls, last, historical_data, min_data_points,
                   pending, calls, run, first>>

\* lines 29-38: build the master index, enter the outer loop
BuildTimeline ==
    /\ pc = "start"
    /\ \E vs \in values(historical_data) :
          master_index' = union_all(<<>>, vs)
    /\ i' = min_data_points
    /\ pc' = "outer"
    /\ UNCHANGED <<pmvars, cfgvars, risk_call, taewvars, wsvars, ncalls, last, historical_data, min_data_points,
                   pending, calls, run, first>>

current_timestamp == master_index[i + 1]

\* lines 38-42: the outer loop takes step i and starts the inner loop
OuterStep ==
    /\ pc = "outer"
    /\ i < Len(master_index)
    /\ pending' \in items(historical_data)
    /\ pc' = "inner"
    /\ UNCHANGED <<pmvars, cfgvars, risk_call, taewvars, wsvars, ncalls, last, historical_data, min_data_points,
                   master_index, i, calls, run, first>>

\* the inner loop with "has a bar at or before current_timestamp" for "has a
\* bar at current_timestamp"
InnerCall_asof ==
    /\ pc = "inner"
    /\ pending # <<>>
    /\ LET symbol == Head(pending).symbol
           df == Head(pending).df
       IN /\ \E n \in Range(index(df)) : n <= current_timestamp
          /\ LET data_slice == loc_upto(df, current_timestamp)
                 row == data_slice[Len(data_slice)]
                 candle == Candle(row.name, row.kind)
                 signal == CHOOSE a \in Answers(symbol, {row.signal}) : TRUE
                 new == Call(candle, signal, symbol)
             IN /\ last' = [symbol |-> symbol, signal |-> signal, candle |-> candle]
                /\ calls' = Append(calls, [T |-> current_timestamp, symbol |-> symbol,
                                           slice |-> index(data_slice)])
                /\ capital' = new.capital
                /\ open_positions' = new.open_positions
                /\ trade_history' = new.trade_history
                /\ raised' = new.raised
                /\ pc' = IF new.raised THEN "raised" ELSE "inner"
    /\ pending' = Tail(pending)
    /\ ncalls' = ncalls + 1
    /\ UNCHANGED <<cfgvars, risk_call, taewvars, wsvars, historical_data, min_data_points, master_index, i,
                   run, first>>

\* lines 42-49: the inner loop visits a symbol that has a bar at
\* current_timestamp
InnerCall ==
    /\ pc = "inner"
    /\ pending # <<>>
    /\ LET symbol == Head(pending).symbol
           df == Head(pending).df
       IN /\ current_timestamp \in Range(index(df))
          /\ LET data_slice == loc_upto(df, current_timestamp)
                 row == data_slice[Len(data_slice)]
                 candle == Candle(row.name, row.kind)
                 signal == CHOOSE a \in Answers(symbol, {row.signal}) : TRUE
                 new == Call(candle, signal, symbol)
             IN /\ last' = [symbol |-> symbol, signal |-> signal, candle |-> candle]
                /\ calls' = Append(calls, [T |-> current_timestamp, symbol |-> symbol,
                                           slice |-> index(data_slice)])
                /\ capital' = new.capital
                /\ open_positions' = new.open_positions
                /\ trade_history' = new.trade_history
                /\ raised' = new.raised
                /\ pc' = IF new.raised THEN "raised" ELSE "inner"
    /\ pending' = Tail(pending)
    /\ ncalls' = ncalls + 1
    /\ UNCHANGED <<cfgvars, risk_call, taewvars, wsvars, historical_data, min_data_points, master_index, i,
                   run, first>>

\* line 44: the inner loop visits a symbol without a bar at current_timestamp
InnerSkip ==
    /\ pc = "inner"
    /\ pending # <<>>
    /\ current_timestamp \notin Range(index(Head(pending).df))
    /\ pending' = Tail(pending)
    /\ UNCHANGED <<pmvars, cfgvars, risk_call, taewvars, wsvars, ncalls, last, historical_data, min_data_points,
                   master_index, i, pc, calls, run, first>>

\* the inner loop is exhausted, the outer loop advances
InnerDone ==
    /\ pc = "inner"
    /\ pending = <<>>
    /\ i' = i + 1
    /\ pc' = "outer"
    /\ UNCHANGED <<pmvars, cfgvars, risk_call, taewvars, wsvars, ncalls, last, historical_data, min_data_points,
                   master_index, pending, calls, run, first>>

\* Backtester.run closing what is still open, at its entry price, before the
\* ledger goes to the analyzer
Finish_force_close ==
    /\ pc = "outer"
    /\ i >= Len(master_index)
    /\ LET RECURSIVE close_all(_)
           close_all(self) ==
               IF DOMAIN self.open_positions = {} THEN self
               ELSE LET symbol == CHOOSE x \in DOMAIN self.open_positions : TRUE
                    IN close_all(close_position(self, symbol,
                                                self.open_positions[symbol].entry_price,
                                                "END_OF_DATA", Len(master_index)))
           new == close_all(Self)
       IN /\ capital' = new.capital
          /\ open_positions' = new.open_positions
          /\ trade_history' = new.trade_history
    /\ pc' = "done"
    /\ UNCHANGED <<raised, cfgvars, risk_call, taewvars, wsvars, ncalls, last, historical_data, min_data_points,
                   master_index, i, pending, calls, run, first>>

\* lines 51-57: the outer loop is exhausted, the ledger goes to the analyzer
Finish ==
    /\ pc = "outer"
    /\ i >= Len(master_index)
    /\ pc' = "done"
    /\ UNCHANGED <<pmvars, cfgvars, risk_call, taewvars, wsvars, ncalls, last, historical_data, min_data_points,
                   master_index, i, pending, calls, run, first>>

\* the caller builds a fresh PortfolioManager with the same parameters and
\* strategy and runs the same historical_data again
Rerun ==
    /\ pc = "done"
    /\ run = 1
    /\ first' = [trade_history |-> trade_history, capital |-> capital, calls |-> calls]
    /\ run' = 2
    /\ capital' = initial_capital
    /\ open_positions' = NoPositions
    /\ trade_history' = <<>>
    /\ raised' = FALSE
    /\ ncalls' = 0
    /\ last' = NoCall
    /\ master_index' = <<>>
    /\ i' = 0
    /\ pending' = <<>>
    /\ calls' = <<>>
    /\ pc' = "start"
    /\ UNCHANGED <<cfgvars, risk_call, taewvars, wsvars, historical_data, min_data_points>>

NextBT ==
    \/ BuildTimeline
    \/ OuterStep
    \/ InnerCall
    \/ InnerSkip
    \/ InnerDone
    \/ Finish
    \/ Rerun

SpecBT == BTInit /\ [][NextBT]_vars

\* ------------------------------------------------------------------------
\* Backtester.run with a strategy whose check_signal raises on some slices
\* ------------------------------------------------------------------------
\* rows of a DataFrame handed to a strategy that answers BUY on a quiet slice
\* and raises on a slice ending with a wide bar
FaultyRowKinds ==
    << [kind |-> <<100, 100, 100, R(5, 1)>>, signal |-> "BUY"],
       [kind |-> <<100, 125, 100, R(5, 1)>>, signal |-> Raises] >>

RECURSIVE FaultyRowsFrom(_, _)
FaultyRowsFrom(f, t) ==
    IF t > MaxT THEN <<>>
    ELSE (IF f[t] = 0 THEN <<>>
          ELSE << [name |-> t, kind |-> FaultyRowKinds[f[t]].kind,
                   signal |-> FaultyRowKinds[f[t]].signal] >>)
         \o FaultyRowsFrom(f, t + 1)

FaultyDataFrames == { FaultyRowsFrom(f, 1) : f \in [1..MaxT -> 0..Len(FaultyRowKinds)] }

FaultyHistoricalData ==
    { << [symbol |-> "ETHUSDT", df |-> d1], [symbol |-> "BTCUSDT", df |-> d2] >> :
         d1 \in FaultyDataFrames, d2 \in FaultyDataFrames }

FaultInit ==
    /\ initial_capital = R(1000, 1)
    /\ capital = initial_capital
    /\ open_positions = NoPositions
    /\ trade_history = <<>>
    /\ max_open_positions \in {1, 2}
    /\ strategy = "plain"
    /\ raised = FALSE
    /\ ncalls = 0
    /\ last = NoCall
    /\ historical_data \in FaultyHistoricalData
    /\ min_data_points \in 0..MaxWarm
    /\ master_index = <<>>
    /\ i = 0
    /\ pending = <<>>
    /\ pc = "start"
    /\ calls = <<>>
    /\ run = 1
    /\ first = NoRun
    /\ risk_call = NoRiskCall
    /\ last_processed_length = 0
    /\ cached_waves = <<>>
    /\ client_df = <<>>
    /\ callback_calls = <<>>
    /\ nmessages = 0

SpecFault == FaultInit /\ [][NextBT]_vars

\* ------------------------------------------------------------------------
\* Properties
\* ------------------------------------------------------------------------
\* the DataFrame historical_data holds for a symbol
DfOf(symbol) ==
    (CHOOSE it \in Range(historical_data) : it.symbol = symbol).df

TimestampsOf(symbol) == Range(index(DfOf(symbol)))

AllTimestamps ==
    UNION { Range(index(historical_data[j].df)) : j \in DOMAIN historical_data }

\* position of a symbol in the insertion order of historical_data
KeyPos(symbol) == CHOOSE j \in DOMAIN historical_data : historical_data[j].symbol = symbol

\* the first min_data_points entries of the master index
WarmUp == { master_index[j] : j \in (1..min_data_points) \cap DOMAIN master_index }

RECURSIVE SumPnl(_)
SumPnl(h) == IF h = <<>> THEN Zero ELSE FAdd(SumPnl(SubSeq(h, 1, Len(h) - 1)), h[Len(h)].pnl)

NormalBar(candle) == candle.ATR_14 = R(5, 1)

\* C1: every slice Backtester.run hands to update_for_symbol at timestamp T
\* holds bars of that symbol only, none later than T, ends with the bar at T
\* and holds every bar of the symbol up to T.
C1_NoLookAhead ==
    \A j \in DOMAIN calls :
        LET c == calls[j]
        IN /\ c.slice # <<>>
           /\ Range(c.slice) \subseteq TimestampsOf(c.symbol)
           /\ \A n \in Range(c.slice) : n <= c.T
           /\ c.slice[Len(c.slice)] = c.T
           /\ \A n \in TimestampsOf(c.symbol) : n <= c.T => n \in Range(c.slice)
           /\ Len(c.slice) = Cardinality(Range(c.slice))

\* a call whose symbol has both earlier and later bars than T
C1_Witness ==
    \E j \in DOMAIN calls :
        /\ Len(calls[j].slice) >= 2
        /\ \E n \in TimestampsOf(calls[j].symbol) : n > calls[j].T

\* C2: the number of open positions never exceeds max_open_positions.
C2_PositionCeiling ==
    Cardinality(DOMAIN open_positions) <= max_open_positions

\* a call on a normal bar for a flat symbol did not get to look for an entry:
\* all slots taken
C2_Witness ==
    /\ last.signal = NotAsked
    /\ NormalBar(last.candle)
    /\ FGt(capital, Zero)
    /\ last.symbol \notin DOMAIN open_positions
    /\ trade_history = <<>>
    /\ Cardinality(DOMAIN open_positions) = max_open_positions

\* C3: a position is opened only for a symbol without one, by a BUY/SELL call
\* for that symbol; while a symbol stays in open_positions its position is the
\* one that was opened (never replaced); the key leaves open_positions only in
\* the call that appends this trade to the ledger.
C3_OnePositionPerSymbol ==
    [][\A s \in Symbols :
         /\ (s \in DOMAIN open_positions /\ s \in DOMAIN open_positions')
               => open_positions'[s] = open_positions[s]
         /\ (s \notin DOMAIN open_positions /\ s \in DOMAIN open_positions')
               => /\ last'.symbol = s
                  /\ last'.signal \in {"BUY", "SELL"}
                  /\ open_positions'[s].entry_time = last'.candle.name
                  /\ trade_history' = trade_history
         /\ (s \in DOMAIN open_positions /\ s \notin DOMAIN open_positions')
               => /\ last'.symbol = s
                  /\ Len(trade_history') = Len(trade_history) + 1
                  /\ SubSeq(trade_history', 1, Len(trade_history)) = trade_history
                  /\ trade_history'[Len(trade_history')].symbol = s
                  /\ trade_history'[Len(trade_history')].entry_time
                        = open_positions[s].entry_time
         /\ (trade_history' # trade_history /\ last'.symbol = s)
               => (s \in DOMAIN open_positions /\ s \notin DOMAIN open_positions')
      ]_vars

\* a call on a normal bar arrived, with a slot free, for a symbol whose
\* earlier position is still open
C3_Witness ==
    /\ last.signal = NotAsked
    /\ NormalBar(last.candle)
    /\ last.symbol \in DOMAIN open_positions
    /\ open_positions[last.symbol].entry_time < last.candle.name
    /\ Cardinality(DOMAIN open_positions) < max_open_positions

\* C4: capital equals initial_capital plus the pnl of every ledger record
\* (so every close moves capital by exactly the trade's pnl).
C4_CapitalConservation ==
    FEq(capital, FAdd(initial_capital, SumPnl(trade_history)))

\* the bar reaches both the stop and the target of the position
Ambiguous(position, candle) ==
    \/ /\ position.direction = "LONG"
       /\ FLe(candle.Low, position.stop_loss)
       /\ FGe(candle.High, position.take_profit)
    \/ /\ position.direction = "SHORT"
       /\ FGe(candle.High, position.stop_loss)
       /\ FLe(candle.Low, position.take_profit)

StopPnl(position) ==
    IF position.direction = "LONG"
    THEN FMul(FSub(position.stop_loss, position.entry_price), position.size)
    ELSE FMul(FSub(position.entry_price, position.stop_loss), position.size)

\* C5: a call for a symbol in position whose bar reaches both stop and target
\* closes the trade as STOP_LOSS, filled at the stop price.
C5_StopPrecedesTarget ==
    [][\A s \in DOMAIN open_positions :
         (last'.symbol = s /\ Ambiguous(open_positions[s], last'.candle))
            => /\ s \notin DOMAIN open_positions'
               /\ Len(trade_history') = Len(trade_history) + 1
               /\ trade_history'[Len(trade_history')].exit_reason = "STOP_LOSS"
               /\ trade_history'[Len(trade_history')].pnl = StopPnl(open_positions[s])
      ]_vars

\* the entry a BUY/SELL on this bar would compute has a zero stop distance or
\* a size <= 0
Degenerate(candle, signal) ==
    LET direction == IF signal = "BUY" THEN "LONG" ELSE "SHORT"
        stop_loss == determine_initial_sl(candle, direction)
        size == calculate_position_size(capital, risk_per_trade_pct, candle.Close, stop_loss)
    IN FEq(stop_loss, candle.Close) \/ FLe(size, Zero)

\* C6: a BUY/SELL for a flat symbol with a free slot whose stop equals the
\* entry price, or whose size is <= 0, opens nothing, raises nothing and
\* leaves capital, open_positions and trade_history as they were.
C6_DegenerateRejected ==
    [][(/\ last'.signal \in {"BUY", "SELL"}
        /\ last'.symbol \notin DOMAIN open_positions
        /\ Cardinality(DOMAIN open_positions) < max_open_positions
        /\ Degenerate(last'.candle, last'.signal))
          => /\ raised' = FALSE
             /\ UNCHANGED <<capital, open_positions, trade_history>>
      ]_vars

\* a BUY/SELL on a bar with ATR 0 arrived at a funded, flat portfolio
C6_Witness ==
    /\ last.signal \in {"BUY", "SELL"}
    /\ last.candle.ATR_14 = Zero
    /\ last.candle.name >= 1
    /\ FGt(capital, Zero)
    /\ open_positions = NoPositions
    /\ trade_history = <<>>
    /\ ~raised


C8_MasterTimeline ==
    pc \notin {"start", "idle"}
       => /\ Range(master_index) = AllTimestamps
          /\ \A a, b \in DOMAIN master_index : a < b => master_index[a] < master_index[b]
          /\ Len(master_index) = Cardinality(AllTimestamps)

\* the calendars differ and overlap: the timeline is longer than each symbol's
\* index and shorter than their sum
C8_Witness ==
    /\ pc = "outer"
    /\ \A j \in DOMAIN historical_data : Len(master_index) > Len(historical_data[j].df)
    /\ Len(master_index) < Len(historical_data[1].df) + Len(historical_data[2].df)

\* C9: no call is made at any of the first min_data_points entries of the
\* master index; a timeline of at most min_data_points entries gets no call
\* and leaves the ledger empty.
C9_WarmUpSkip ==
    /\ \A j \in DOMAIN calls : calls[j].T \notin WarmUp
    /\ (pc = "done" /\ Len(master_index) <= min_data_points)
          => (calls = <<>> /\ trade_history = <<>>)

\* a finished run that skipped warm-up entries carrying bars and made calls
\* afterwards
C9_Witness ==
    /\ pc = "done"
    /\ min_data_points >= 1
    /\ calls # <<>>
    /\ \E j \in DOMAIN historical_data :
          Range(index(historical_data[j].df)) \cap WarmUp # {}

\* C10: calls are made in increasing time order, never twice for one symbol
\* and timestamp, only for a symbol that has a bar at exactly that timestamp,
\* and, once the run is done, for every bar after the warm-up.
C10_StepOrder ==
    /\ \A j, k \in DOMAIN calls :
          j < k => /\ calls[j].T <= calls[k].T
                   /\ <<calls[j].T, calls[j].symbol>> # <<calls[k].T, calls[k].symbol>>
    /\ \A j \in DOMAIN calls : calls[j].T \in TimestampsOf(calls[j].symbol)
    /\ pc = "done"
          => \A it \in Range(historical_data) :
                \A t \in Range(index(it.df)) \ WarmUp :
                   \E j \in DOMAIN calls : calls[j].T = t /\ calls[j].symbol = it.symbol

\* a finished run in which a symbol had a gap, between two of its own bars,
\* at a timestamp after the warm-up where the other symbol was called
C10_Witness ==
    /\ pc = "done"
    /\ \E j \in DOMAIN calls :
          \E it \in Range(historical_data) :
             /\ it.symbol # calls[j].symbol
             /\ calls[j].T \notin Range(index(it.df))
             /\ \E a, b \in Range(index(it.df)) : a < calls[j].T /\ calls[j].T < b

\* C11: when strategy.check_signal raises during one symbol's step, the step
\* leaves capital, open_positions and trade_history as they were and
\* Backtester.run goes on with the remaining symbols and timestamps.
C11_ErrorContainment ==
    [][(ncalls' = ncalls + 1 /\ last'.signal = Raises)
          => /\ pc' = "inner"
             /\ pending' = Tail(pending)
             /\ UNCHANGED <<capital, open_positions, trade_history>>
      ]_vars

\* C12: with a symbol that has zero bars (or no symbol at all) in
\* historical_data, Backtester.run refuses to run: it never gets past its
\* start other than by raising.
C12_StructuralErrorsFatal ==
    (\/ historical_data = <<>>
     \/ \E j \in DOMAIN historical_data : historical_data[j].df = <<>>)
       => pc \in {"idle", "start", "raised"}

\* the fields of a ClosedTrade
ClosedTradeFields ==
    {"entry_time", "entry_price", "size", "stop_loss", "take_profit", "direction",
     "exit_price", "exit_time", "exit_reason", "pnl", "symbol"}

\* C13: every record of trade_history carries all ClosedTrade fields, the
\* Position fields plus exit_price, exit_time, exit_reason (STOP_LOSS or
\* TAKE_PROFIT), pnl and symbol.
C13_ClosedTradeFields ==
    \A j \in DOMAIN trade_history :
        /\ ClosedTradeFields \subseteq DOMAIN trade_history[j]
        /\ trade_history[j].exit_reason \in {"STOP_LOSS", "TAKE_PROFIT"}

\* C14: every Position held in open_positions has size > 0.
C14_PositiveSize ==
    \A s \in DOMAIN open_positions : FGt(open_positions[s].size, Zero)

\* the bar satisfies an exit condition of the position
ExitCondition(position, candle) ==
    \/ /\ position.direction = "LONG"
       /\ FLe(candle.Low, position.stop_loss) \/ FGe(candle.High, position.take_profit)
    \/ /\ position.direction = "SHORT"
       /\ FGe(candle.High, position.stop_loss) \/ FLe(candle.Low, position.take_profit)

\* C15: a call for a symbol in position whose bar satisfies an exit condition
\* removes the position and appends one trade of that symbol in that call.
C15_ExitFires ==
    [][\A s \in DOMAIN open_positions :
         (/\ ncalls' = ncalls + 1
          /\ last'.symbol = s
          /\ ExitCondition(open_positions[s], last'.candle))
            => /\ s \notin DOMAIN open_positions'
               /\ Len(trade_history') = Len(trade_history) + 1
               /\ trade_history'[Len(trade_history')].symbol = s
      ]_vars

\* C16: within a run the ledger only grows at its end, and its exit_time
\* values are non-decreasing in list order.
C16_LedgerOrdered ==
    [][/\ \A j, k \in DOMAIN trade_history' :
             j < k => trade_history'[j].exit_time <= trade_history'[k].exit_time
       /\ run' = run
             => /\ Len(trade_history') >= Len(trade_history)
                /\ SubSeq(trade_history', 1, Len(trade_history)) = trade_history
      ]_vars

\* a finished run whose ledger holds trades of both symbols closed at
\* different timestamps
C16_Witness ==
    /\ pc = "done"
    /\ Len(trade_history) >= 2
    /\ trade_history[1].exit_time < trade_history[Len(trade_history)].exit_time
    /\ trade_history[1].symbol # trade_history[Len(trade_history)].symbol

\* C17: an update_for_symbol call that does not close a position (it opens
\* one, gets HOLD, skips the entry, finds no free slot, or finds no exit
\* condition met) leaves capital and trade_history unchanged.
C17_CapitalOnlyAtClose ==
    [][(/\ ncalls' = ncalls + 1
        /\ ~(/\ last'.symbol \in DOMAIN open_positions
             /\ last'.symbol \notin DOMAIN open_positions'))
          => /\ capital' = capital
             /\ trade_history' = trade_history
      ]_vars

\* the latest call opened a position of positive size, after an earlier trade
\* had moved capital
C17_Witness ==
    /\ last.signal \in {"BUY", "SELL"}
    /\ last.symbol \in DOMAIN open_positions
    /\ open_positions[last.symbol].entry_time = last.candle.name
    /\ FGt(open_positions[last.symbol].size, Zero)
    /\ Len(trade_history) = 1
    /\ FEq(capital, FAdd(initial_capital, trade_history[1].pnl))
    /\ ~FEq(capital, initial_capital)

\* the row a call of the run was made on
RowAt(symbol, T) == CHOOSE r \in Range(DfOf(symbol)) : r.name = T

\* a BUY row whose bar stays at 100: it reaches neither level (90 and 110) of
\* a LONG opened at 100 with ATR 5
Quiet(row) == row.signal = "BUY" /\ row.kind = <<100, 100, 100, R(5, 1)>>

CalledSymbols == { calls[j].symbol : j \in DOMAIN calls }

\* C18: the end of Backtester.run changes neither open_positions nor the
\* ledger nor capital; a finished run all of whose calls were made on quiet
\* BUY bars has an empty ledger, capital = initial_capital, and one open
\* position, entered at its symbol's first call, per called symbol that found
\* a slot.
C18_OpenAtRunEnd ==
    [][/\ (pc # "done" /\ pc' = "done")
             => UNCHANGED <<capital, open_positions, trade_history>>
       /\ (/\ pc' = "done"
           /\ calls' # <<>>
           /\ \A j \in DOMAIN calls' : Quiet(RowAt(calls'[j].symbol, calls'[j].T)))
             => /\ trade_history' = <<>>
                /\ capital' = initial_capital
                /\ DOMAIN open_positions' \subseteq CalledSymbols'
                /\ Cardinality(DOMAIN open_positions')
                      = IF Cardinality(CalledSymbols') < max_open_positions
                        THEN Cardinality(CalledSymbols') ELSE max_open_positions
                /\ \A s \in DOMAIN open_positions' :
                      \A j \in DOMAIN calls' :
                         calls'[j].symbol = s => open_positions'[s].entry_time <= calls'[j].T
      ]_vars

\* a finished run over one symbol with bars: warm-up, a BUY at the first call,
\* a later quiet bar, the position still open and the ledger empty
C18_Witness ==
    /\ pc = "done"
    /\ min_data_points >= 1
    /\ DfOf("BTCUSDT") = <<>>
    /\ Len(calls) >= 2
    /\ \A j \in DOMAIN calls : Quiet(RowAt(calls[j].symbol, calls[j].T))
    /\ DOMAIN open_positions = {"ETHUSDT"}
    /\ open_positions["ETHUSDT"].entry_time = calls[1].T
    /\ trade_history = <<>>
    /\ capital = initial_capital

\* pnl of a ledger record filled at the level its exit_reason names
LevelPnl(t) ==
    LET level == IF t.exit_reason = "STOP_LOSS" THEN t.stop_loss ELSE t.take_profit
    IN IF t.direction = "LONG"
       THEN FMul(FSub(level, t.entry_price), t.size)
       ELSE FMul(FSub(t.entry_price, level), t.size)

\* C19: the record appended by an exit has reason STOP_LOSS or TAKE_PROFIT, is
\* the position that was open for the called symbol, and its pnl is the value
\* of (level - entry_price) x size for LONG, (entry_price - level) x size for
\* SHORT, level being the stop_loss or take_profit the reason names, whatever
\* the bar's Low, High and Close (a NaN size gives a NaN pnl).
C19_FillAtLevel ==
    [][Len(trade_history') = Len(trade_history) + 1
          => LET t == trade_history'[Len(trade_history')]
                 position == open_positions[last'.symbol]
             IN /\ t.exit_reason \in {"STOP_LOSS", "TAKE_PROFIT"}
                /\ t.symbol = last'.symbol
                /\ t.exit_time = last'.candle.name
                /\ \A fld \in DOMAIN position : t[fld] = position[fld]
                /\ t.pnl = LevelPnl(t)
      ]_vars

\* the latest call stopped a position out on a bar that went through its
\* stop: Low is below the stop, the loss is that of the stop
C19_Witness ==
    /\ trade_history # <<>>
    /\ LET t == trade_history[Len(trade_history)]
       IN /\ t.exit_time = last.candle.name
          /\ t.exit_reason = "STOP_LOSS"
          /\ FLt(last.candle.Low, t.stop_loss)
          /\ FLt(t.stop_loss, last.candle.Close)
          /\ FLt(t.pnl, Zero)
          /\ FEq(t.pnl, LevelPnl(t))

\* C20: determine_initial_sl returns Close - ATR_14 x atr_multiplier_sl for
\* LONG and Close + ATR_14 x atr_multiplier_sl for SHORT, strictly below
\* (LONG) and above (SHORT) the entry price when ATR_14 > 0, the entry price
\* itself for any other direction; ATR 1, multiplier 2, entry 100, LONG gives
\* 98.
C20_InitialStop ==
    risk_call.method = "determine_initial_sl"
       => LET entry_price == risk_call.candle.Close
              atr == risk_call.candle.ATR_14
              distance == FMul(atr, R(2, 1))
              sl == risk_call.result
          IN /\ atr_multiplier_sl = R(2, 1)
             /\ risk_call.direction = "LONG" => sl = FSub(entry_price, distance)
             /\ risk_call.direction = "SHORT" => sl = FAdd(entry_price, distance)
             /\ risk_call.direction \notin {"LONG", "SHORT"} => sl = entry_price
             /\ (FGt(atr, Zero) /\ risk_call.direction = "LONG") => FLt(sl, entry_price)
             /\ (FGt(atr, Zero) /\ risk_call.direction = "SHORT") => FGt(sl, entry_price)
             /\ (/\ atr = R(1, 1)
                 /\ entry_price = R(100, 1)
                 /\ risk_call.direction = "LONG") => sl = R(98, 1)

\* the call of the example: ATR 1, entry 100, LONG, stop 98
C20_Witness ==
    /\ risk_call.method = "determine_initial_sl"
    /\ risk_call.candle.ATR_14 = R(1, 1)
    /\ risk_call.candle.Close = R(100, 1)
    /\ risk_call.direction = "LONG"
    /\ risk_call.result = R(98, 1)

\* C21: calculate_position_size returns (balance x risk fraction) /
\* |entry_price - stop_loss_price| when that distance is > 0 and 0 when it is
\* <= 0; the call changes nothing of the portfolio; capital 10000, risk 0.01,
\* entry 100, stop 98 gives 50.
C21_PositionSize ==
    risk_call.method = "calculate_position_size"
       => LET diff == FSub(risk_call.entry_price, risk_call.stop_loss_price)
              distance == IF FLt(diff, Zero) THEN FSub(Zero, diff) ELSE diff
              at_risk == FMul(risk_call.portfolio_balance, risk_call.risk_per_trade_pct)
              size == risk_call.result
          IN /\ FGt(distance, Zero) => (size = FDiv(at_risk, distance) /\ IsNum(size))
             /\ FLe(distance, Zero) => size = Zero
             /\ (/\ risk_call.portfolio_balance = R(10000, 1)
                 /\ risk_call.risk_per_trade_pct = R(1, 100)
                 /\ risk_call.entry_price = R(100, 1)
                 /\ risk_call.stop_loss_price = R(98, 1)) => size = R(50, 1)
             /\ capital = initial_capital
             /\ open_positions = NoPositions
             /\ trade_history = <<>>

\* a call with the stop above the entry (a SHORT's stop): balance 1000, risk
\* 0.01, entry 100, stop 110, size 1
C21_Witness ==
    /\ risk_call.method = "calculate_position_size"
    /\ risk_call.portfolio_balance = R(1000, 1)
    /\ risk_call.risk_per_trade_pct = R(1, 100)
    /\ risk_call.entry_price = R(100, 1)
    /\ risk_call.stop_loss_price = R(110, 1)
    /\ risk_call.result = R(1, 1)

\* C22: the take-profit of an entry is the result of get_take_profit_price
\* when the strategy has it; otherwise Close + 2 x ATR (LONG) or
\* Close - 2 x ATR (SHORT) when ATR_14 > 0; otherwise Close x 1.02 (LONG) or
\* Close x 0.98 (SHORT); it is always a number.
C22_TakeProfitTiers ==
    risk_call.method = "_calculate_take_profit"
       => LET candle == risk_call.candle
              long == risk_call.direction = "LONG"
              tp == risk_call.result
          IN /\ IsNum(tp)
             /\ tp = IF risk_call.strategy = "hook"
                     THEN get_take_profit_price(candle, risk_call.direction)
                     ELSE IF FGt(candle.ATR_14, Zero)
                     THEN (IF long THEN FAdd(candle.Close, FMul(R(2, 1), candle.ATR_14))
                           ELSE FSub(candle.Close, FMul(R(2, 1), candle.ATR_14)))
                     ELSE (IF long THEN FMul(candle.Close, R(102, 100))
                           ELSE FMul(candle.Close, R(98, 100)))

\* the size _check_new_entry computes for an entry in this direction on this
\* bar, from the capital of the current state
EntrySize(candle, direction) ==
    calculate_position_size(capital, risk_per_trade_pct, candle.Close,
                            determine_initial_sl(candle, direction))

\* the call opened, for symbol s, a position of this direction on its bar and
\* touched nothing else
Opened(s, candle, direction) ==
    /\ DOMAIN open_positions' = DOMAIN open_positions \cup {s}
    /\ \A x \in DOMAIN open_positions : open_positions'[x] = open_positions[x]
    /\ open_positions'[s].direction = direction
    /\ open_positions'[s].entry_price = candle.Close
    /\ open_positions'[s].entry_time = candle.name
    /\ open_positions'[s].size = EntrySize(candle, direction)
    /\ capital' = capital
    /\ trade_history' = trade_history

\* C23: in a call for a flat symbol with a free slot, BUY opens a LONG and
\* SELL a SHORT when the size is > 0, entered at the bar's Close and
\* timestamp; HOLD or any other answer opens nothing and leaves capital,
\* open_positions and trade_history unchanged.
C23_EntryRule ==
    [][(/\ ncalls' = ncalls + 1
        /\ last'.symbol \notin DOMAIN open_positions
        /\ Cardinality(DOMAIN open_positions) < max_open_positions)
          => /\ (last'.signal = "BUY" /\ FGt(EntrySize(last'.candle, "LONG"), Zero))
                   => Opened(last'.symbol, last'.candle, "LONG")
             /\ (last'.signal = "SELL" /\ FGt(EntrySize(last'.candle, "SHORT"), Zero))
                   => Opened(last'.symbol, last'.candle, "SHORT")
             /\ last'.signal \notin {"BUY", "SELL"}
                   => UNCHANGED <<capital, open_positions, trade_history>>
      ]_vars

\* a SELL on a bar whose High is above its Close opened a SHORT at the Close,
\* next to an open position of the other symbol
C23_Witness ==
    /\ last.signal = "SELL"
    /\ FGt(last.candle.High, last.candle.Close)
    /\ Cardinality(DOMAIN open_positions) = 2
    /\ open_positions[last.symbol].direction = "SHORT"
    /\ open_positions[last.symbol].entry_price = last.candle.Close
    /\ open_positions[last.symbol].entry_time = last.candle.name
    /\ FGt(open_positions[last.symbol].size, Zero)

PositionFields ==
    {"entry_time", "entry_price", "size", "stop_loss", "take_profit", "direction"}

\* C24: a position that stays in open_positions through a call, for its own
\* or another symbol, keeps all six fields; the record of a position that is
\* closed carries the six fields as they were at entry.
C24_PositionFrozen ==
    [][\A s \in DOMAIN open_positions :
         /\ DOMAIN open_positions[s] = PositionFields
         /\ s \in DOMAIN open_positions'
               => open_positions'[s] = open_positions[s]
         /\ s \notin DOMAIN open_positions'
               => \A fld \in PositionFields :
                     trade_history'[Len(trade_history')][fld] = open_positions[s][fld]
      ]_vars

\* the latest call was for a symbol in position since an earlier bar; the bar
\* went above and below the entry price without reaching stop or target, and
\* the position is still there
C24_Witness ==
    /\ last.signal = NotAsked
    /\ last.symbol \in DOMAIN open_positions
    /\ LET position == open_positions[last.symbol]
       IN /\ position.entry_time < last.candle.name
          /\ FGt(last.candle.High, position.entry_price)
          /\ FLt(last.candle.Low, position.entry_price)
          /\ ~ExitCondition(position, last.candle)

\* C25: every slice Backtester.run passes to update_for_symbol holds at least
\* min_data_points bars of its symbol.
C25_WarmUpSufficient ==
    \A j \in DOMAIN calls : Len(calls[j].slice) >= min_data_points

\* ------------------------------------------------------------------------
\* ElliottWaveStrategyFinalFix.check_signal over its TaewAnalyzer
\* ------------------------------------------------------------------------
\* A DataFrame is modelled by its Close column (High = Low = Close on every
\* row); prices are positive integers.

\* constructor arguments; the runner passes 80, True and 0.5, and
\* ElliottWaveStrategyV2.__init__ gives the analyzer min_wave_length 8 in
\* scalping mode. The two lengths are scaled down, keeping
\* min_wave_length <= wave_analysis_lookback.
wave_analysis_lookback == 3
scalping_mode == TRUE
min_wave_confidence == 50
min_wave_length == 2

MaxRows == 4
EWPrices == {1, 2, 3}
EWDataFrames == UNION {[1..n -> EWPrices] : n \in 0..MaxRows}

\* df.tail(n)
tail(df, n) == IF Len(df) <= n THEN df ELSE SubSeq(df, Len(df) - n + 1, Len(df))

SeqMax(s) == CHOOSE m \in {s[j] : j \in DOMAIN s} : \A j \in DOMAIN s : s[j] <= m
SeqMin(s) == CHOOSE m \in {s[j] : j \in DOMAIN s} : \A j \in DOMAIN s : m <= s[j]

\* taew.Alternative_ElliottWave_label_upward / _downward: third-party
\* functions of the price list alone. Here an impulse is labelled exactly on
\* a strictly monotone list, with five points ending at the last index.
Alternative_ElliottWave_label_upward(prices) ==
    IF Len(prices) >= 2 /\ \A j \in 1..(Len(prices) - 1) : prices[j] < prices[j + 1]
    THEN <<[x_len |-> 5, z_max |-> Len(prices) - 1]>>
    ELSE <<>>

Alternative_ElliottWave_label_downward(prices) ==
    IF Len(prices) >= 2 /\ \A j \in 1..(Len(prices) - 1) : prices[j] > prices[j + 1]
    THEN <<[x_len |-> 5, z_max |-> Len(prices) - 1]>>
    ELSE <<>>

\* TaewAnalyzer._calculate_confidence, in hundredths
calculate_confidence(wave) ==
    IF wave.x_len >= 6 THEN 90 ELSE IF wave.x_len = 5 THEN 80 ELSE 50

standardize(waves, direction) ==
    [j \in DOMAIN waves |->
        [direction |-> direction, x_len |-> waves[j].x_len, z_max |-> waves[j].z_max,
         confidence |-> calculate_confidence(waves[j])]]

\* the waves analyze_elliott_waves computes when it does not answer from its
\* cache: both directions, complete waves only
compute_waves(prices) ==
    SelectSeq(standardize(Alternative_ElliottWave_label_upward(prices), "UPWARD")
                \o standardize(Alternative_ElliottWave_label_downward(prices), "DOWNWARD"),
              LAMBDA w : w.x_len >= 5)

\* TaewAnalyzer.analyze_elliott_waves on an analyzer whose cache holds
\* (length, waves): the waves returned and the cache afterwards
analyze_elliott_waves(length, waves, df) ==
    IF df = <<>> \/ Len(df) < min_wave_length
    THEN [waves |-> <<>>, last_processed_length |-> length, cached_waves |-> waves]
    ELSE IF Len(df) = length
    THEN [waves |-> waves, last_processed_length |-> length, cached_waves |-> waves]
    ELSE [waves |-> compute_waves(df), last_processed_length |-> Len(df),
          cached_waves |-> compute_waves(df)]

\* TaewAnalyzer._determine_trading_action
determine_trading_action(wave) ==
    IF wave.direction = "DOWNWARD" /\ wave.x_len >= 5 THEN "CONSIDER_LONG"
    ELSE IF wave.direction = "UPWARD" /\ wave.x_len >= 5 THEN "CONSIDER_SHORT"
    ELSE "HOLD"

\* TaewAnalyzer.get_latest_wave_signal: the first wave of a stable sort by
\* latest point, most recent first
get_latest_wave_signal(waves) ==
    LET top == SeqMax([j \in DOMAIN waves |-> waves[j].z_max])
        k == CHOOSE j \in DOMAIN waves :
                 /\ waves[j].z_max = top
                 /\ \A m \in DOMAIN waves : waves[m].z_max = top => j <= m
    IN [confidence |-> waves[k].confidence,
        suggested_action |-> determine_trading_action(waves[k])]

\* the score one lookback of _determine_market_trend_forced contributes
lookback_score(df, lookback) ==
    IF Len(df) < lookback THEN 0
    ELSE LET current_price == df[Len(df)]
             past_price == df[Len(df) - lookback + 1]
         IN IF 100 * current_price > 103 * past_price THEN 2
            ELSE IF 100 * current_price > 101 * past_price THEN 1
            ELSE IF 100 * current_price < 97 * past_price THEN -2
            ELSE IF 100 * current_price < 99 * past_price THEN -1
            ELSE 0

\* ElliottWaveStrategyFinalFix._determine_market_trend_forced
determine_market_trend_forced(df) ==
    LET recent_50 == tail(df, 50)
        range_score ==
            IF Len(recent_50) >= 10
               /\ SeqMax(recent_50) > SeqMin(recent_50)
               /\ 10 * (recent_50[Len(recent_50)] - SeqMin(recent_50))
                     > 7 * (SeqMax(recent_50) - SeqMin(recent_50))
            THEN 2 ELSE 0
        bullish_score == lookback_score(df, 20) + lookback_score(df, 50)
                             + lookback_score(df, 100) + range_score
    IN IF Len(df) >= 100 /\ 100 * df[Len(df)] > 120 * df[1] THEN "BULLISH"
       ELSE IF Len(df) >= 100 /\ 100 * df[Len(df)] < 80 * df[1] THEN "BEARISH"
       ELSE IF bullish_score >= 1 THEN "BULLISH"
       ELSE IF bullish_score <= -1 THEN "BEARISH"
       ELSE "BULLISH"

\* ElliottWaveStrategyFinalFix._validate_ultra_permissive
validate_ultra_permissive(df) ==
    IF Len(df) < 3 THEN FALSE
    ELSE LET recent_data == tail(df, 5)
             price_range == SeqMax(recent_data) - SeqMin(recent_data)
             total == LET RECURSIVE sum(_)
                          sum(s) == IF s = <<>> THEN 0 ELSE Head(s) + sum(Tail(s))
                      IN sum(recent_data)
         IN \* price_range / mean(Close) >= 0.0001
            10000 * price_range * Len(recent_data) >= total

\* _convert_action_to_signal
convert_action_to_signal(action) ==
    IF action = "CONSIDER_LONG" THEN "BUY"
    ELSE IF action = "CONSIDER_SHORT" THEN "SELL"
    ELSE "HOLD"

\* ElliottWaveStrategyFinalFix._generate_adaptive_signal_forced
generate_adaptive_signal_forced(detected_waves, df, trend_direction) ==
    IF detected_waves = <<>> THEN "HOLD"
    ELSE LET latest_signal_info == get_latest_wave_signal(detected_waves)
             base_action == latest_signal_info.suggested_action
             adapted_signal == IF trend_direction = "BULLISH" THEN "CONSIDER_LONG"
                               ELSE IF trend_direction = "BEARISH" THEN "CONSIDER_SHORT"
                               ELSE base_action
         IN IF latest_signal_info.confidence < min_wave_confidence THEN "HOLD"
            ELSE IF scalping_mode /\ ~validate_ultra_permissive(df) THEN "HOLD"
            ELSE convert_action_to_signal(adapted_signal)

\* ElliottWaveStrategyFinalFix.check_signal on a strategy whose analyzer's
\* cache holds (length, waves): the signal and the analyzer's cache afterwards
ew_check_signal(length, waves, df) ==
    IF df = <<>> \/ Len(df) < wave_analysis_lookback
    THEN [signal |-> "HOLD", last_processed_length |-> length, cached_waves |-> waves]
    ELSE LET analysis_df == IF scalping_mode THEN tail(df, wave_analysis_lookback) ELSE df
             trend_direction == determine_market_trend_forced(analysis_df)
             analysis == analyze_elliott_waves(length, waves, analysis_df)
         IN [signal |-> generate_adaptive_signal_forced(analysis.waves, analysis_df,
                                                        trend_direction),
             last_processed_length |-> analysis.last_processed_length,
             cached_waves |-> analysis.cached_waves]

\* one check_signal call on the long-lived strategy object
CheckSignal ==
    \E df \in EWDataFrames :
       LET r == ew_check_signal(last_processed_length, cached_waves, df)
       IN /\ last_processed_length' = r.last_processed_length
          /\ cached_waves' = r.cached_waves
          /\ risk_call' = [method |-> "check_signal", df |-> df, result |-> r.signal]
    /\ UNCHANGED <<pmvars, cfgvars, ncalls, last, btvars, wsvars>>

NextEW == CheckSignal

SpecEW == RAInit /\ [][NextEW]_vars

\* C26: for any sequence of check_signal calls on one cache-free strategy, the
\* signal returned for a window is the one a freshly constructed strategy
\* (analyzer cache empty) returns for that window.
C26_AlwaysRecomputes ==
    risk_call.method = "check_signal"
       => risk_call.result = ew_check_signal(0, <<>>, risk_call.df).signal

\* C27: one update_for_symbol call makes at most one transition, for its own
\* symbol only: it either evaluates the exit of the symbol's position (the
\* strategy is not asked, and a closed symbol is not re-entered in that call)
\* or looks for an entry (no trade is appended, and the position opened on
\* this bar stays open whatever the bar's range); a trade's exit bar is later
\* than its entry bar.
C27_OneTransitionPerCall ==
    [][ncalls' = ncalls + 1
         => LET s == last'.symbol
                closed == Len(trade_history') > Len(trade_history)
                newest == trade_history'[Len(trade_history')]
            IN /\ Len(trade_history') <= Len(trade_history) + 1
               /\ \A o \in Symbols \ {s} :
                     /\ o \in DOMAIN open_positions' <=> o \in DOMAIN open_positions
                     /\ o \in DOMAIN open_positions
                           => open_positions'[o] = open_positions[o]
               /\ s \in DOMAIN open_positions
                     => /\ last'.signal = NotAsked
                        /\ s \in DOMAIN open_positions'
                              => /\ open_positions'[s] = open_positions[s]
                                 /\ ~closed
               /\ closed
                     => /\ s \in DOMAIN open_positions
                        /\ s \notin DOMAIN open_positions'
                        /\ newest.symbol = s
                        /\ newest.entry_time = open_positions[s].entry_time
                        /\ newest.entry_time < newest.exit_time
                        /\ newest.exit_time = last'.candle.name
               /\ s \notin DOMAIN open_positions
                     => /\ trade_history' = trade_history
                        /\ capital' = capital
                        /\ s \in DOMAIN open_positions'
                              => open_positions'[s].entry_time = last'.candle.name
       ]_vars

\* a symbol has been closed, and a position opened by the latest call is
\* still open although its entry bar reaches its stop
C27_Witness ==
    /\ Len(trade_history) >= 1
    /\ last.symbol \in DOMAIN open_positions
    /\ last.signal \in {"BUY", "SELL"}
    /\ open_positions[last.symbol].entry_time = last.candle.name
    /\ ExitCondition(open_positions[last.symbol], last.candle)

\* ------------------------------------------------------------------------
\* A longer session of calls for one symbol
\* ------------------------------------------------------------------------
\* number of update_for_symbol calls of a session
MaxSessionCalls == 4

\* one call PortfolioManager.update_for_symbol(df_slice, 'BTCUSDT') on a bar
\* later than every bar seen before
SessionCall ==
    /\ ncalls < MaxSessionCalls
    /\ \E k \in BarKinds :
       \E signal \in Answers("BTCUSDT", {"BUY", "SELL", "HOLD"}) :
          LET candle == Candle(ncalls + 1, k)
              new == Call(candle, signal, "BTCUSDT")
          IN /\ last' = [symbol |-> "BTCUSDT", signal |-> signal, candle |-> candle]
             /\ capital' = new.capital
             /\ open_positions' = new.open_positions
             /\ trade_history' = new.trade_history
             /\ raised' = new.raised
    /\ ncalls' = ncalls + 1
    /\ UNCHANGED <<cfgvars, risk_call, taewvars, wsvars, btvars>>

NextSession == SessionCall

SpecSession == RAInit /\ [][NextSession]_vars

\* the entry bar of the trade had ATR_14 > 0: its stop lies strictly on the
\* losing side of the entry price
EntryAtrPositive(t) ==
    IF t.direction = "LONG" THEN FLt(t.stop_loss, t.entry_price)
    ELSE FGt(t.stop_loss, t.entry_price)

\* capital at the entry of the j-th ledger record: the initial capital plus
\* the pnl of the trades closed before that entry
CapitalAtEntry(j) ==
    FAdd(initial_capital,
         SumPnl(SelectSeq(SubSeq(trade_history, 1, j - 1),
                          LAMBDA m : m.exit_time < trade_history[j].entry_time)))

\* C28: every STOP_LOSS trade whose entry bar had ATR > 0 loses exactly the
\* capital at its entry times risk_per_trade_pct, in either direction and
\* however far the exit bar went through the stop.
C28_FixedRiskPerStop ==
    \A j \in DOMAIN trade_history :
       LET t == trade_history[j]
       IN (t.exit_reason = "STOP_LOSS" /\ EntryAtrPositive(t))
             => FEq(t.pnl, FSub(Zero, FMul(CapitalAtEntry(j), risk_per_trade_pct)))

\* the take-profit of the entry lies on the favourable side of its price
TakeProfitFavourable(t) ==
    IF t.direction = "LONG" THEN FGt(t.take_profit, t.entry_price)
    ELSE FLt(t.take_profit, t.entry_price)

\* every entry made so far, closed or still open
Entries ==
    {trade_history[j] : j \in DOMAIN trade_history}
        \cup {open_positions[s] : s \in DOMAIN open_positions}

MaxMessages == 4
\* the 'T' field of a kline message, in milliseconds
CloseTimesMs == 1..3

\* pd.to_datetime(ms, unit='ms')
to_datetime_ms(ms) == ms * 1000000

\* a message without 'k', and kline messages with 'x' (closed) and 'T'
WsMessages ==
    {[k |-> FALSE, x |-> FALSE, T |-> 0]}
        \cup {[k |-> TRUE, x |-> x, T |-> T] : x \in BOOLEAN, T \in CloseTimesMs}

\* initial_df as get_historical_klines returns it (the exchange's klines in
\* time order, Close_time converted), or none
InitialDfs == { SortedSeq({to_datetime_ms(T) : T \in S}) : S \in SUBSET CloseTimesMs }

\* _on_message comparing with < where the code has <=
on_message_lt(df, message) ==
    IF ~message.k THEN [df |-> df, delivered |-> <<>>]
    ELSE IF ~message.x THEN [df |-> df, delivered |-> <<>>]
    ELSE LET new_candle_close_time == to_datetime_ms(message.T)
         IN IF df # <<>> /\ new_candle_close_time < df[Len(df)]
            THEN [df |-> df, delivered |-> <<>>]
            ELSE [df |-> Append(df, new_candle_close_time),
                  delivered |-> <<Append(df, new_candle_close_time)>>]

\* BinanceWebsocketClient._on_message with a callback set: self.df
\* afterwards and the arguments the callback was invoked with (a copy of
\* self.df: a value of its own)
on_message(df, message) ==
    IF ~message.k THEN [df |-> df, delivered |-> <<>>]
    ELSE IF ~message.x THEN [df |-> df, delivered |-> <<>>]
    ELSE LET new_candle_close_time == to_datetime_ms(message.T)
         IN IF df # <<>> /\ new_candle_close_time <= df[Len(df)]
            THEN [df |-> df, delivered |-> <<>>]
            ELSE [df |-> Append(df, new_candle_close_time),
                  delivered |-> <<Append(df, new_candle_close_time)>>]

\* BinanceWebsocketClient.__init__
WSInit ==
    /\ PMInit
    /\ initial_capital = R(1000, 1)
    /\ max_open_positions = 1
    /\ strategy = "plain"
    /\ ncalls = 0
    /\ last = NoCall
    /\ risk_call = NoRiskCall
    /\ last_processed_length = 0
    /\ cached_waves = <<>>
    /\ BTIdle
    /\ client_df \in InitialDfs
    /\ callback_calls = <<>>
    /\ nmessages = 0

\* one message handled by _on_message
OnMessage ==
    /\ nmessages < MaxMessages
    /\ \E message \in WsMessages :
          LET r == on_message(client_df, message)
          IN /\ client_df' = r.df
             /\ callback_calls' = callback_calls \o r.delivered
             /\ risk_call' = [method |-> "_on_message", message |-> message]
    /\ nmessages' = nmessages + 1
    /\ UNCHANGED <<pmvars, cfgvars, ncalls, last, btvars, taewvars>>

NextWS == OnMessage

SpecWS == WSInit /\ [][NextWS]_vars

StrictlyIncreasing(q) == \A a, b \in DOMAIN q : a < b => q[a] < q[b]

\* C30: a message appends its candle exactly when the candle is closed and
\* its close time is later than the last stored one, and then the callback is
\* invoked once, with the stored data; any other message changes nothing and
\* invokes nothing; the stored close times are strictly increasing.
C30_FeedMonotonic ==
    [][nmessages' = nmessages + 1
         => LET message == risk_call'.message
                close_time == to_datetime_ms(message.T)
                newer == client_df = <<>> \/ close_time > client_df[Len(client_df)]
            IN /\ StrictlyIncreasing(client_df')
               /\ IF message.k /\ message.x /\ newer
                  THEN /\ client_df' = Append(client_df, close_time)
                       /\ callback_calls' = Append(callback_calls, client_df')
                  ELSE /\ client_df' = client_df
                       /\ callback_calls' = callback_calls
       ]_vars

\* two candles were appended and delivered, and the latest message, a closed
\* candle older than the last stored one, was ignored
C30_Witness ==
    /\ risk_call.method = "_on_message"
    /\ risk_call.message.k /\ risk_call.message.x
    /\ Len(callback_calls) = 2
    /\ callback_calls[2] = client_df
    /\ Len(callback_calls[2]) = Len(callback_calls[1]) + 1
    /\ to_datetime_ms(risk_call.message.T) < client_df[Len(client_df)]
    /\ nmessages = 3
====
